---- MODULE Spec2Model ----
(***************************************************************************)
(* The namespace registry of nestjs-gql-namespaces (core/registry.ts,      *)
(* core/utils.ts) as a state machine.  A JavaScript string is a sequence   *)
(* of one-character strings, so that key construction, case conversion and *)
(* splitting are computed character by character as the code computes      *)
(* them.  `undefined` is a value no string is equal to.                    *)
(***************************************************************************)
EXTENDS Integers, Sequences, FiniteSets, TLC

\* ------------------------------------------------------------------------
\* JavaScript string primitives used by core/utils.ts

undefined == <<"undefined">>

Lower == <<"a","b","c","d","e","f","g","h","i","j","k","l","m",
           "n","o","p","q","r","s","t","u","v","w","x","y","z">>

Upper == <<"A","B","C","D","E","F","G","H","I","J","K","L","M",
           "N","O","P","Q","R","S","T","U","V","W","X","Y","Z">>

LowerCaseLetters == {Lower[i] : i \in DOMAIN Lower}

UpperCaseLetters == {Upper[i] : i \in DOMAIN Upper}

LowerOf == [c \in UpperCaseLetters |-> Lower[CHOOSE i \in DOMAIN Upper : Upper[i] = c]]

UpperOf == [c \in LowerCaseLetters |-> Upper[CHOOSE i \in DOMAIN Lower : Lower[i] = c]]

IsLower(c) == c \in LowerCaseLetters

IsUpper(c) == c \in UpperCaseLetters

toLowerCase(c) == IF IsUpper(c) THEN LowerOf[c] ELSE c

toUpperCase(c) == IF IsLower(c) THEN UpperOf[c] ELSE c

\* x is truthy: neither undefined nor the empty string
Truthy(x) == x # undefined /\ x # <<>>

\* x || y
OrElse(x, y) == IF Truthy(x) THEN x ELSE y

RECURSIVE Join(_, _)
\* parts.join(sep)
Join(parts, sep) ==
    IF parts = <<>> THEN <<>>
    ELSE IF Len(parts) = 1 THEN parts[1]
    ELSE parts[1] \o sep \o Join(Tail(parts), sep)

RECURSIVE SplitFrom(_, _, _)
\* the parts of str after the part `cur` that is being read
SplitFrom(str, sep, cur) ==
    IF str = <<>> THEN <<cur>>
    ELSE IF Head(str) = sep THEN <<cur>> \o SplitFrom(Tail(str), sep, <<>>)
    ELSE SplitFrom(Tail(str), sep, Append(cur, Head(str)))

\* str.split(sep), sep a single character
Split(str, sep) == SplitFrom(str, sep, <<>>)

\* parts.filter(Boolean)
FilterBoolean(parts) == SelectSeq(parts, LAMBDA p : p # <<>>)

RECURSIVE ReplaceHyphenLower(_)
\* s.replace(/-([a-z])/g, (_, letter) => letter.toUpperCase())
ReplaceHyphenLower(s) ==
    IF s = <<>> THEN <<>>
    ELSE IF Len(s) >= 2 /\ s[1] = "-" /\ IsLower(s[2])
         THEN <<toUpperCase(s[2])>> \o ReplaceHyphenLower(SubSeq(s, 3, Len(s)))
         ELSE <<s[1]>> \o ReplaceHyphenLower(Tail(s))

\* ------------------------------------------------------------------------
\* core/utils.ts

\* normalizeNamespaceName without the replace of a hyphen and its letter
normalizeNamespaceName_KeepsHyphens(name) ==
    IF name = <<>> THEN <<>>
    ELSE <<toLowerCase(name[1])>> \o Tail(name)

normalizeNamespaceName(name) ==
    IF name = <<>> THEN <<>>
    ELSE <<toLowerCase(name[1])>> \o ReplaceHyphenLower(Tail(name))

pascalCase(str) ==
    IF str = <<>> THEN <<>> ELSE <<toUpperCase(str[1])>> \o Tail(str)

Mutation == <<"M","u","t","a","t","i","o","n">>

Query == <<"Q","u","e","r","y">>

GraphQLKind == {Mutation, Query}

createDefaultTypeName(segment, graphqlKind) ==
    pascalCase(segment) \o
        (IF graphqlKind = Mutation THEN Mutation \o <<"s">>
                                   ELSE <<"Q","u","e","r","i","e","s">>)

createResolverClassName(typeName, suffix) == typeName \o suffix

createLinkResolverClassName(parentTypeName, fieldName) ==
    parentTypeName \o <<"_">> \o fieldName \o
        <<"_","L","i","n","k","R","e","s","o","l","v","e","r">>

parseNamespaceSegments(namespace) == FilterBoolean(Split(namespace, "."))

\* createSegmentMappingKey that leaves the parent out of the key
createSegmentMappingKey_WithoutParent(graphqlKind, segment, parentSegment) ==
    graphqlKind \o <<":">> \o <<":">> \o segment

createSegmentMappingKey(graphqlKind, segment, parentSegment) ==
    graphqlKind \o <<":">> \o OrElse(parentSegment, <<>>) \o <<":">> \o segment

\* createLeafParentKey that leaves the kind out of the key
createLeafParentKey_WithoutKind(graphqlKind, leaf) == <<":">> \o leaf

createLeafParentKey(graphqlKind, leaf) == graphqlKind \o <<":">> \o leaf

\* createRootKey that leaves the kind out of the key
createRootKey_WithoutKind(graphqlKind, rootName) ==
    <<":">> \o normalizeNamespaceName(rootName)

createRootKey(graphqlKind, rootName) ==
    graphqlKind \o <<":">> \o normalizeNamespaceName(rootName)

\* edgesAreEqual by reference: two edge objects are never the same object
edgesAreEqual_ByReference(edge1, edge2) == FALSE

\* edgesAreEqual that leaves the segments out of the comparison
edgesAreEqual_ByKindAndTarget(edge1, edge2) ==
    /\ edge1.graphqlKind = edge2.graphqlKind
    /\ edge1.targetTypeName = edge2.targetTypeName

edgesAreEqual(edge1, edge2) ==
    /\ edge1.graphqlKind = edge2.graphqlKind
    /\ Join(edge1.segments, <<".">>) = Join(edge2.segments, <<".">>)
    /\ edge1.targetTypeName = edge2.targetTypeName

\* ------------------------------------------------------------------------
\* core/registry.ts: NamespaceRegistryImpl.  A registry value r is a record
\* of the object's fields.  A Map is a function on the set of its keys; the
\* Map `roots` and the arrays keep their insertion order as sequences.  A
\* class object is [name, serial]: serial counts the classes constructed
\* under that name, so two evaluations of `class {}` are never equal.

MapSet(m, k, v) == [x \in DOMAIN m \cup {k} |-> IF x = k THEN v ELSE m[x]]

MapGet(m, k) == IF k \in DOMAIN m THEN m[k] ELSE undefined

NoError == "none"

\* throw new Error(`Segment "..." is already mapped under "..."`)
ConflictError == "ConflictError"

\* throw new Error('NamespaceResolver requires a non-empty namespace')
EmptyNamespaceError == "EmptyNamespaceError"

EmptyRegistry ==
    [createdTypes         |-> <<>>,
     roots                |-> <<>>,
     edges                |-> <<>>,
     fields               |-> <<>>,
     classDefaultLeafType |-> <<>>,
     segmentToTypeName    |-> <<>>,
     leafToParent         |-> <<>>,
     dualResolvers        |-> <<>>,
     originalResolvers    |-> <<>>,
     attached             |-> <<>>,
     mappingCalls         |-> <<>>,
     constructed          |-> <<>>,
     returned             |-> <<>>,
     thrown               |-> NoError]

\* the object `class {}` evaluates to, named typeName
NewClass(r, typeName) ==
    [name   |-> typeName,
     serial |-> (IF typeName \in DOMAIN r.constructed
                 THEN r.constructed[typeName] ELSE 0) + 1]

\* history: cls joins the instances handed out for typeName
NoteReturned(returned, typeName, cls) ==
    MapSet(returned, typeName,
           (IF typeName \in DOMAIN returned THEN returned[typeName] ELSE {})
               \cup {cls})

\* getOrCreateObjectType without the cache lookup: a class per request
getOrCreateObjectType_NoCacheLookup(r, typeName) ==
    LET cls == NewClass(r, typeName)
    IN  [r EXCEPT !.createdTypes = MapSet(@, typeName, cls),
                  !.constructed  = MapSet(@, typeName, cls.serial),
                  !.returned     = NoteReturned(@, typeName, cls)]

getOrCreateObjectType(r, typeName) ==
    IF typeName \in DOMAIN r.createdTypes
    THEN [r EXCEPT !.returned =
                       NoteReturned(@, typeName, r.createdTypes[typeName])]
    ELSE LET cls == NewClass(r, typeName)
         IN  [r EXCEPT !.createdTypes = MapSet(@, typeName, cls),
                       !.constructed  = MapSet(@, typeName, cls.serial),
                       !.returned     = NoteReturned(@, typeName, cls)]

\* setSegmentMapping with `this.getOrCreateObjectType(typeName)` moved in
\* front of the conflict check
setSegmentMapping_TypeBeforeCheck(r, graphqlKind, segment, typeName, parentSegment) ==
    LET key           == createSegmentMappingKey(graphqlKind, segment, parentSegment)
        leafParentKey == createLeafParentKey(graphqlKind, segment)
        r1            == getOrCreateObjectType(r, typeName)
    IN  IF /\ leafParentKey \in DOMAIN r.leafToParent
           /\ r.leafToParent[leafParentKey] # OrElse(parentSegment, <<>>)
        THEN [r1 EXCEPT !.thrown = ConflictError]
        ELSE [r1 EXCEPT !.segmentToTypeName = MapSet(@, key, typeName),
                        !.leafToParent =
                            MapSet(@, leafParentKey, OrElse(parentSegment, <<>>))]

\* setSegmentMapping without `this.getOrCreateObjectType(typeName)`
setSegmentMapping_TypeNotCreated(r, graphqlKind, segment, typeName, parentSegment) ==
    LET key           == createSegmentMappingKey(graphqlKind, segment, parentSegment)
        leafParentKey == createLeafParentKey(graphqlKind, segment)
    IN  IF /\ leafParentKey \in DOMAIN r.leafToParent
           /\ r.leafToParent[leafParentKey] # OrElse(parentSegment, <<>>)
        THEN [r EXCEPT !.thrown = ConflictError]
        ELSE [r EXCEPT !.segmentToTypeName = MapSet(@, key, typeName),
                       !.leafToParent =
                           MapSet(@, leafParentKey, OrElse(parentSegment, <<>>))]

\* setSegmentMapping with `if (existingParent && existingParent !== ...)`:
\* a segment mapped at the root is never in conflict
setSegmentMapping_RootParentFalsy(r, graphqlKind, segment, typeName, parentSegment) ==
    LET key           == createSegmentMappingKey(graphqlKind, segment, parentSegment)
        leafParentKey == createLeafParentKey(graphqlKind, segment)
    IN  IF /\ leafParentKey \in DOMAIN r.leafToParent
           /\ Truthy(r.leafToParent[leafParentKey])
           /\ r.leafToParent[leafParentKey] # OrElse(parentSegment, <<>>)
        THEN [r EXCEPT !.thrown = ConflictError]
        ELSE getOrCreateObjectType(
                 [r EXCEPT !.segmentToTypeName = MapSet(@, key, typeName),
                           !.leafToParent =
                               MapSet(@, leafParentKey, OrElse(parentSegment, <<>>))],
                 typeName)

\* setSegmentMapping without the conflict check: the last parent wins
setSegmentMapping_NoConflictCheck(r, graphqlKind, segment, typeName, parentSegment) ==
    LET key           == createSegmentMappingKey(graphqlKind, segment, parentSegment)
        leafParentKey == createLeafParentKey(graphqlKind, segment)
    IN  getOrCreateObjectType(
            [r EXCEPT !.segmentToTypeName = MapSet(@, key, typeName),
                      !.leafToParent =
                          MapSet(@, leafParentKey, OrElse(parentSegment, <<>>))],
            typeName)

\* setSegmentMapping with `existingParent !== parentSegment`: the recorded
\* parent compared with the argument as passed, an absent one not taken as ''
setSegmentMapping_StrictParentCompare(r, graphqlKind, segment, typeName, parentSegment) ==
    LET key           == createSegmentMappingKey(graphqlKind, segment, parentSegment)
        leafParentKey == createLeafParentKey(graphqlKind, segment)
    IN  IF /\ leafParentKey \in DOMAIN r.leafToParent
           /\ r.leafToParent[leafParentKey] # parentSegment
        THEN [r EXCEPT !.thrown = ConflictError]
        ELSE getOrCreateObjectType(
                 [r EXCEPT !.segmentToTypeName = MapSet(@, key, typeName),
                           !.leafToParent =
                               MapSet(@, leafParentKey, OrElse(parentSegment, <<>>))],
                 typeName)

setSegmentMapping(r, graphqlKind, segment, typeName, parentSegment) ==
    LET key           == createSegmentMappingKey(graphqlKind, segment, parentSegment)
        leafParentKey == createLeafParentKey(graphqlKind, segment)
    IN  IF /\ leafParentKey \in DOMAIN r.leafToParent
           /\ r.leafToParent[leafParentKey] # OrElse(parentSegment, <<>>)
        THEN [r EXCEPT !.thrown = ConflictError]
        ELSE getOrCreateObjectType(
                 [r EXCEPT !.segmentToTypeName = MapSet(@, key, typeName),
                           !.leafToParent =
                               MapSet(@, leafParentKey, OrElse(parentSegment, <<>>))],
                 typeName)

getSegmentMapping(r, graphqlKind, segment, parentSegment) ==
    MapGet(r.segmentToTypeName,
           createSegmentMappingKey(graphqlKind, segment, parentSegment))

getParentForLeaf(r, graphqlKind, leaf) ==
    MapGet(r.leafToParent, createLeafParentKey(graphqlKind, leaf))

\* this.roots.has(key)
RootsHas(r, key) == \E i \in DOMAIN r.roots : r.roots[i].key = key

\* this.roots.get(key)
RootsGet(r, key) ==
    IF RootsHas(r, key)
    THEN r.roots[CHOOSE i \in DOMAIN r.roots : r.roots[i].key = key].root
    ELSE undefined

\* ensureRoot that lets a supplied typeName replace the recorded one
ensureRoot_TypeNameOverwrites(r, graphqlKind, rootName, typeName) ==
    LET normalizedRootName == normalizeNamespaceName(rootName)
        key                == createRootKey(graphqlKind, normalizedRootName)
        resolvedTypeName   ==
            OrElse(typeName, createDefaultTypeName(normalizedRootName, graphqlKind))
        entry              == [key  |-> key,
                               root |-> [graphqlKind |-> graphqlKind,
                                         typeName    |-> resolvedTypeName]]
    IN  IF RootsHas(r, key) /\ ~Truthy(typeName) THEN r
        ELSE LET r1 == getOrCreateObjectType(r, resolvedTypeName)
             IN  IF RootsHas(r, key)
                 THEN [r1 EXCEPT !.roots =
                          [i \in DOMAIN @ |-> IF @[i].key = key THEN entry ELSE @[i]]]
                 ELSE [r1 EXCEPT !.roots = Append(@, entry)]

ensureRoot(r, graphqlKind, rootName, typeName) ==
    LET normalizedRootName == normalizeNamespaceName(rootName)
        key                == createRootKey(graphqlKind, normalizedRootName)
        resolvedTypeName   ==
            OrElse(typeName, createDefaultTypeName(normalizedRootName, graphqlKind))
    IN  IF RootsHas(r, key) THEN r
        ELSE LET r1 == getOrCreateObjectType(r, resolvedTypeName)
             IN  [r1 EXCEPT !.roots =
                     Append(@, [key  |-> key,
                                root |-> [graphqlKind |-> graphqlKind,
                                          typeName    |-> resolvedTypeName]])]

\* the NamespaceRoot that ensureRoot returns
ensureRootResult(r, graphqlKind, rootName, typeName) ==
    RootsGet(ensureRoot(r, graphqlKind, rootName, typeName),
             createRootKey(graphqlKind, normalizeNamespaceName(rootName)))

\* ensureEdge without `this.ensureRoot(graphqlKind, rootName)`
ensureEdge_RootNotEnsured(r, graphqlKind, segments, targetTypeName) ==
    IF Len(segments) < 2 THEN r
    ELSE LET last == segments[Len(segments)]
             finalTypeName ==
                 OrElse(targetTypeName, createDefaultTypeName(last, graphqlKind))
             r2 == getOrCreateObjectType(r, finalTypeName)
             newEdge == [graphqlKind    |-> graphqlKind,
                         segments       |-> segments,
                         targetTypeName |-> finalTypeName]
         IN  IF \E i \in DOMAIN r2.edges : edgesAreEqual(r2.edges[i], newEdge)
             THEN r2
             ELSE [r2 EXCEPT !.edges = Append(@, newEdge)]

\* ensureEdge without the search for an equal edge: every call pushes
ensureEdge_NoDuplicateCheck(r, graphqlKind, segments, targetTypeName) ==
    IF Len(segments) < 1 THEN r
    ELSE LET r1 == ensureRoot(r, graphqlKind, segments[1], undefined)
         IN  IF Len(segments) = 1 THEN r1
             ELSE LET last == segments[Len(segments)]
                      finalTypeName ==
                          OrElse(targetTypeName, createDefaultTypeName(last, graphqlKind))
                      r2 == getOrCreateObjectType(r1, finalTypeName)
                  IN  [r2 EXCEPT !.edges =
                          Append(@, [graphqlKind    |-> graphqlKind,
                                     segments       |-> segments,
                                     targetTypeName |-> finalTypeName])]

\* ensureEdge without `this.getOrCreateObjectType(finalTypeName)`
ensureEdge_TargetTypeNotCreated(r, graphqlKind, segments, targetTypeName) ==
    IF Len(segments) < 1 THEN r
    ELSE LET r1 == ensureRoot(r, graphqlKind, segments[1], undefined)
         IN  IF Len(segments) = 1 THEN r1
             ELSE LET last == segments[Len(segments)]
                      finalTypeName ==
                          OrElse(targetTypeName, createDefaultTypeName(last, graphqlKind))
                      newEdge == [graphqlKind    |-> graphqlKind,
                                  segments       |-> segments,
                                  targetTypeName |-> finalTypeName]
                  IN  IF \E i \in DOMAIN r1.edges : edgesAreEqual(r1.edges[i], newEdge)
                      THEN r1
                      ELSE [r1 EXCEPT !.edges = Append(@, newEdge)]

\* ensureEdge without `if (segments.length === 1) return`
ensureEdge_EdgeForRootField(r, graphqlKind, segments, targetTypeName) ==
    IF Len(segments) < 1 THEN r
    ELSE LET r1 == ensureRoot(r, graphqlKind, segments[1], undefined)
             last == segments[Len(segments)]
             finalTypeName ==
                 OrElse(targetTypeName, createDefaultTypeName(last, graphqlKind))
             r2 == getOrCreateObjectType(r1, finalTypeName)
             newEdge == [graphqlKind    |-> graphqlKind,
                         segments       |-> segments,
                         targetTypeName |-> finalTypeName]
         IN  IF \E i \in DOMAIN r2.edges : edgesAreEqual(r2.edges[i], newEdge)
             THEN r2
             ELSE [r2 EXCEPT !.edges = Append(@, newEdge)]

ensureEdge(r, graphqlKind, segments, targetTypeName) ==
    IF Len(segments) < 1 THEN r
    ELSE LET r1 == ensureRoot(r, graphqlKind, segments[1], undefined)
         IN  IF Len(segments) = 1 THEN r1
             ELSE LET last == segments[Len(segments)]
                      inferredTypeName ==
                          OrElse(targetTypeName, createDefaultTypeName(last, graphqlKind))
                      finalTypeName == OrElse(targetTypeName, inferredTypeName)
                      r2 == getOrCreateObjectType(r1, finalTypeName)
                      newEdge == [graphqlKind    |-> graphqlKind,
                                  segments       |-> segments,
                                  targetTypeName |-> finalTypeName]
                      exists == \E i \in DOMAIN r2.edges :
                                    edgesAreEqual(r2.edges[i], newEdge)
                  IN  IF exists THEN r2
                      ELSE [r2 EXCEPT !.edges = Append(@, newEdge)]

\* registerField that also maps the leaf of a two-segment path under its
\* parent, as a declaration does
registerField_MapsLeafUnderParent(r, meta) ==
    LET r1 == [r EXCEPT !.fields = Append(@, meta)]
    IN  IF Len(meta.segments) = 2
        THEN setSegmentMapping(r1, meta.graphqlKind, meta.segments[2],
                 createDefaultTypeName(meta.segments[2], meta.graphqlKind),
                 meta.segments[1])
        ELSE r1

\* meta is [graphqlKind, segments, fieldName]; returnTypeFn, a closure the
\* registry stores and never calls, is left out
registerField(r, meta) == [r EXCEPT !.fields = Append(@, meta)]

setDefaultLeafTypeForClass(r, ctor, typeName) ==
    getOrCreateObjectType(
        [r EXCEPT !.classDefaultLeafType = MapSet(@, ctor, typeName)], typeName)

getDefaultLeafTypeForClass(r, ctor) == MapGet(r.classDefaultLeafType, ctor)

mergeFieldsIntoNamespace(r, graphqlKind, namespace, targetTypeName) ==
    LET segments == FilterBoolean(Split(namespace, "."))
    IN  IF Len(segments) = 0 THEN r
        ELSE ensureEdge(r, graphqlKind, segments, targetTypeName)

hasFieldsForNamespace(r, graphqlKind, namespace) ==
    LET segments == FilterBoolean(Split(namespace, "."))
    IN  \E i \in DOMAIN r.fields :
            /\ r.fields[i].graphqlKind = graphqlKind
            /\ Join(r.fields[i].segments, <<".">>) = Join(segments, <<".">>)

registerDualResolver(r, resolver) ==
    [r EXCEPT !.dualResolvers = Append(@, resolver)]

registerOriginalResolver(r, resolver) ==
    IF \E i \in DOMAIN r.originalResolvers : r.originalResolvers[i] = resolver
    THEN r
    ELSE [r EXCEPT !.originalResolvers = Append(@, resolver)]

getDualResolvers(r) == r.dualResolvers

getRegistryStats(r) ==
    [createdTypes |-> Cardinality(DOMAIN r.createdTypes),
     roots        |-> Len(r.roots),
     edges        |-> Len(r.edges),
     fields       |-> Len(r.fields),
     mappings     |-> Cardinality(DOMAIN r.segmentToTypeName)]

\* the path of a registration taken as it is, no parent looked up
EffectiveSegments_NoParentLookup(r, meta) == meta.segments

\* the effective path of a registration (buildDynamicProviders, first loop)
EffectiveSegments(r, meta) ==
    IF Len(meta.segments) = 1
    THEN LET leaf   == meta.segments[1]
             parent == getParentForLeaf(r, meta.graphqlKind, leaf)
         IN  IF Truthy(parent) THEN <<parent, leaf>> ELSE <<leaf>>
    ELSE meta.segments

\* the iteration with `inferred || mapped`: inference wins over the mapping
BuildEdgeFromField_InferenceWins(r, meta) ==
    LET segments  == EffectiveSegments(r, meta)
        parentSeg == IF Len(segments) > 1 THEN segments[Len(segments) - 1]
                                          ELSE undefined
        leafSeg   == segments[Len(segments)]
        r1        == ensureRoot(r, meta.graphqlKind, segments[1], undefined)
        root      == ensureRootResult(r, meta.graphqlKind, segments[1], undefined)
        mapped    == getSegmentMapping(r1, meta.graphqlKind, leafSeg, parentSeg)
        inferred  == IF Len(segments) = 1
                     THEN root.typeName
                     ELSE createDefaultTypeName(leafSeg, meta.graphqlKind)
    IN  ensureEdge(r1, meta.graphqlKind, segments, OrElse(inferred, mapped))

\* one iteration of `for (const meta of this.fields)`; namespaceFieldsMap
\* is a local that nothing reads and is left out
BuildEdgeFromField(r, meta) ==
    LET segments  == EffectiveSegments(r, meta)
        rootName  == segments[1]
        parentSeg == IF Len(segments) > 1 THEN segments[Len(segments) - 1]
                                          ELSE undefined
        leafSeg   == segments[Len(segments)]
        r1        == ensureRoot(r, meta.graphqlKind, rootName, undefined)
        root      == ensureRootResult(r, meta.graphqlKind, rootName, undefined)
        mapped    == getSegmentMapping(r1, meta.graphqlKind, leafSeg, parentSeg)
        inferred  == IF Len(segments) = 1
                     THEN root.typeName
                     ELSE createDefaultTypeName(leafSeg, meta.graphqlKind)
        targetTypeName == OrElse(mapped, inferred)
    IN  ensureEdge(r1, meta.graphqlKind, segments, targetTypeName)

RECURSIVE BuildEdgesFromFields(_, _)
\* `for (const meta of this.fields)` from the i-th registration on
BuildEdgesFromFields(r, i) ==
    IF i > Len(r.fields) THEN r
    ELSE BuildEdgesFromFields(BuildEdgeFromField(r, r.fields[i]), i + 1)

\* the root resolver typed by the default name of the root instead of the
\* typeName recorded for it
RootResolver_DefaultTypeName(r, entry) ==
    LET parts       == Split(entry.key, ":")
        graphqlKind == parts[1]
        rootName    == IF Len(parts) >= 2 THEN parts[2] ELSE undefined
        typeName    == createDefaultTypeName(rootName, graphqlKind)
    IN  [resolver  |-> "root",
         className |-> createResolverClassName(typeName,
                           <<"R","o","o","t","R","e","s","o","l","v","e","r">>),
         operation |-> IF graphqlKind = Mutation THEN Mutation ELSE Query,
         fieldName |-> rootName,
         type      |-> [name |-> typeName, serial |-> 1]]

\* the provider pushed for one entry of this.roots
RootResolver(r, entry) ==
    LET parts       == Split(entry.key, ":")
        graphqlKind == parts[1]
        rootName    == IF Len(parts) >= 2 THEN parts[2] ELSE undefined
        r1          == getOrCreateObjectType(r, entry.root.typeName)
    IN  [resolver  |-> "root",
         className |-> createResolverClassName(entry.root.typeName,
                           <<"R","o","o","t","R","e","s","o","l","v","e","r">>),
         operation |-> IF graphqlKind = Mutation THEN Mutation ELSE Query,
         fieldName |-> rootName,
         type      |-> r1.createdTypes[entry.root.typeName]]

RECURSIVE BuildRootResolvers(_, _, _)
\* `for (const [key, root] of this.roots.entries())` from the i-th entry on
BuildRootResolvers(r, providers, i) ==
    IF i > Len(r.roots) THEN [reg |-> r, providers |-> providers]
    ELSE BuildRootResolvers(
             getOrCreateObjectType(r, r.roots[i].root.typeName),
             Append(providers, RootResolver(r, r.roots[i])),
             i + 1)

\* parentRootKey of an edge (link resolver loop)
ParentRootKey(edge) ==
    createRootKey(edge.graphqlKind, normalizeNamespaceName(edge.segments[1]))

\* this.roots.get(parentRootKey)
ParentRootOfEdge(r, edge) == RootsGet(r, ParentRootKey(edge))

\* the provider pushed for one edge whose parent root exists
LinkResolver(r, edge) ==
    LET fieldName  == edge.segments[Len(edge.segments)]
        parentRoot == ParentRootOfEdge(r, edge)
        r1         == getOrCreateObjectType(r, parentRoot.typeName)
        r2         == getOrCreateObjectType(r1, edge.targetTypeName)
    IN  [resolver   |-> "link",
         className  |-> createLinkResolverClassName(parentRoot.typeName, fieldName),
         fieldName  |-> fieldName,
         parentType |-> r2.createdTypes[parentRoot.typeName],
         type       |-> r2.createdTypes[edge.targetTypeName]]

RECURSIVE BuildLinkResolvers(_, _, _)
\* `for (const edge of this.edges)` from the i-th edge on
BuildLinkResolvers(r, providers, i) ==
    IF i > Len(r.edges) THEN [reg |-> r, providers |-> providers]
    ELSE LET edge == r.edges[i]
         IN  IF Len(edge.segments) - 1 = 0
             THEN BuildLinkResolvers(r, providers, i + 1)
             ELSE IF ~RootsHas(r, ParentRootKey(edge))
             THEN BuildLinkResolvers(r, providers, i + 1)
             ELSE BuildLinkResolvers(
                      getOrCreateObjectType(
                          getOrCreateObjectType(r, ParentRootOfEdge(r, edge).typeName),
                          edge.targetTypeName),
                      Append(providers, LinkResolver(r, edge)),
                      i + 1)

\* [reg: the registry afterwards, providers: the array returned]
buildDynamicProviders(r) ==
    LET r1     == BuildEdgesFromFields(r, 1)
        rootsR == BuildRootResolvers(r1, <<>>, 1)
    IN  BuildLinkResolvers(rootsR.reg, rootsR.providers, 1)

\* ------------------------------------------------------------------------
\* decorators/namespace-resolver.decorator.ts.  options is
\* [fieldName, typeName, parentFieldName, graphqlKind], an absent option
\* being undefined; a method's metadata is [graphqlKind, fieldName], as
\* @NestedMutation and @NestedQuery store it.  The entries of `attached`
\* are what Resolver(() => type)(cls) and ResolveField leave behind: the
\* class, the output type it resolves, and the names of the leaf fields.

processMethodMetadata(r, target, methodMeta, namespace, graphqlKind) ==
    LET segments == FilterBoolean(Split(namespace, "."))
    IN  IF Len(segments) = 0
        THEN [r EXCEPT !.thrown = EmptyNamespaceError]
        ELSE registerField(r, [graphqlKind |-> graphqlKind,
                               segments    |-> segments,
                               fieldName   |-> methodMeta.fieldName])

RECURSIVE ProcessMethods(_, _, _, _, _, _)
\* `for (const methodMeta of methods) processMethodMetadata(...)` from the
\* i-th method on; a throw ends the loop
ProcessMethods(r, target, methods, namespace, graphqlKind, i) ==
    IF i > Len(methods) \/ r.thrown # NoError THEN r
    ELSE ProcessMethods(
             processMethodMetadata(r, target, methods[i], namespace, graphqlKind),
             target, methods, namespace, graphqlKind, i + 1)

\* finalTypeName of getOrCreateNamespaceType
NamespaceTypeName(options) ==
    OrElse(options.typeName,
           createDefaultTypeName(options.fieldName,
                                 OrElse(options.graphqlKind, Mutation)))

\* the registry after getOrCreateNamespaceType; the class it returns is
\* createdTypes[finalTypeName] of that registry
getOrCreateNamespaceType(r, options) ==
    LET graphqlKind   == OrElse(options.graphqlKind, Mutation)
        finalTypeName == NamespaceTypeName(options)
        r1 == IF Truthy(options.fieldName)
              THEN setSegmentMapping(r, graphqlKind, options.fieldName,
                                     finalTypeName, options.parentFieldName)
              ELSE r
    IN  IF r1.thrown # NoError THEN r1
        ELSE getOrCreateObjectType(
                 IF Truthy(options.fieldName)
                 THEN [r1 EXCEPT !.mappingCalls =
                          Append(@, <<graphqlKind, options.fieldName,
                                      OrElse(options.parentFieldName, <<>>),
                                      finalTypeName>>)]
                 ELSE r1,
                 finalTypeName)


\* the namespace of a declaration (NamespaceResolver, first statement)
NamespaceOf(options) ==
    IF Truthy(options.parentFieldName)
    THEN options.parentFieldName \o <<".">> \o options.fieldName
    ELSE options.fieldName

RECURSIVE FieldNamesOf(_)
\* the names ResolveField is applied with, one per method
FieldNamesOf(methods) ==
    IF methods = <<>> THEN <<>>
    ELSE <<methods[1].fieldName>> \o FieldNamesOf(Tail(methods))

\* Resolver(() => resolverType)(cls) and ResolveField for the methods
Attach(r, cls, options, methods, resolverType) ==
    [r EXCEPT !.attached =
        Append(@, [class       |-> cls,
                   graphqlKind |-> options.graphqlKind,
                   namespace   |-> NamespaceOf(options),
                   type        |-> resolverType,
                   fieldNames  |-> FieldNamesOf(methods)])]

\* createResolverClass: a class extending the target, resolver of resolverType
createResolverClass(r, className, options, methods, resolverType) ==
    Attach(r, className, options, methods, resolverType)

createSingleResolver(r, target, options, methods, graphqlKind) ==
    LET opts == [options EXCEPT !.graphqlKind = graphqlKind]
        r1   == getOrCreateNamespaceType(r, opts)
    IN  IF r1.thrown # NoError THEN r1
        ELSE Attach(r1, target, opts, methods,
                    r1.createdTypes[NamespaceTypeName(opts)])

createDualResolvers(r, target, options, mutationMethods, queryMethods) ==
    LET mOpts == [options EXCEPT !.graphqlKind = Mutation]
        qOpts == [options EXCEPT !.graphqlKind = Query]
        mName == target \o "MutationResolver"
        qName == target \o "QueryResolver"
        r1    == getOrCreateNamespaceType(r, mOpts)
        r2    == registerDualResolver(
                     createResolverClass(r1, mName, mOpts, mutationMethods,
                                         r1.createdTypes[NamespaceTypeName(mOpts)]),
                     mName)
        r3    == getOrCreateNamespaceType(r2, qOpts)
        r4    == registerDualResolver(
                     createResolverClass(r3, qName, qOpts, queryMethods,
                                         r3.createdTypes[NamespaceTypeName(qOpts)]),
                     qName)
    IN  IF r1.thrown # NoError THEN r1
        ELSE IF r3.thrown # NoError THEN r3
        ELSE registerOriginalResolver(r4, target)

\* the class decorator applied to target, whose method decorators stored
\* methodMetas
NamespaceResolver(r, target, options, methodMetas) ==
    LET namespace       == NamespaceOf(options)
        mutationMethods == SelectSeq(methodMetas, LAMBDA m : m.graphqlKind = Mutation)
        queryMethods    == SelectSeq(methodMetas, LAMBDA m : m.graphqlKind = Query)
        r1 == ProcessMethods(r, target, mutationMethods, namespace, Mutation, 1)
        r2 == ProcessMethods(r1, target, queryMethods, namespace, Query, 1)
        hasMutations == Len(mutationMethods) > 0
        hasQueries   == Len(queryMethods) > 0
    IN  IF r2.thrown # NoError THEN r2
        ELSE IF hasMutations /\ hasQueries
        THEN createDualResolvers(r2, target, options, mutationMethods, queryMethods)
        ELSE IF hasMutations
        THEN createSingleResolver(r2, target, options, mutationMethods, Mutation)
        ELSE IF hasQueries
        THEN createSingleResolver(r2, target, options, queryMethods, Query)
        ELSE r2

\* NamespaceModule.forRoot: the providers of the dynamic module
forRoot(r) ==
    LET built == buildDynamicProviders(r)
    IN  [reg |-> built.reg, providers |-> built.providers,
         allProviders |-> built.providers \o getDualResolvers(built.reg)]

\* ------------------------------------------------------------------------
\* Inputs of the calls

user == <<"u","s","e","r">>

profile == <<"p","r","o","f","i","l","e">>

settings == <<"s","e","t","t","i","n","g","s">>

T1 == <<"T","1">>

T2 == <<"T","2">>

SegmentNames == {profile}

ParentArgs == {undefined, user, settings}

TypeNames == {T1, T2}

\* <<typeName, parentSegment>> of the setSegmentMapping calls
MappingArgs ==
    {<<T1, undefined>>, <<T1, user>>, <<T1, settings>>, <<T2, settings>>}

OptionalTypeNames == {undefined, T1}

RootNames == {<<"U","s","e","r">>}

\* <<segments, targetTypeName>> of the ensureEdge calls
EdgeArgs ==
    {<<<<user>>, undefined>>, <<<<user, profile>>, undefined>>,
     <<<<user, profile>>, T1>>}

FieldPaths ==
    {<<profile>>, <<user, profile>>, <<settings, profile>>,
     <<user, settings, profile>>}

Namespaces == {user \o <<".">> \o profile}

Constructors == {"UserResolver"}

\* a method as @NestedMutation / @NestedQuery stores it
Method(graphqlKind, fieldName) == [graphqlKind |-> graphqlKind, fieldName |-> fieldName]

\* the options of a @NamespaceResolver
Options(fieldName, typeName, parentFieldName) ==
    [fieldName |-> fieldName, typeName |-> typeName,
     parentFieldName |-> parentFieldName, graphqlKind |-> undefined]

\* the decorated classes: target, options of @NamespaceResolver, methods
Declarations ==
    {[target  |-> "UserResolver",
      options |-> Options(user, undefined, undefined),
      methods |-> <<Method(Mutation, <<"f">>)>>],
     [target  |-> "AccountResolver",
      options |-> Options(user, T1, undefined),
      methods |-> <<Method(Query, <<"g">>)>>],
     [target  |-> "ProfileResolver",
      options |-> Options(profile, undefined, user),
      methods |-> <<Method(Mutation, <<"f">>)>>],
     [target  |-> "ProfileT2Resolver",
      options |-> Options(profile, T2, user),
      methods |-> <<Method(Mutation, <<"f">>), Method(Query, <<"g">>)>>],
     [target  |-> "SettingsProfileResolver",
      options |-> Options(profile, undefined, settings),
      methods |-> <<Method(Query, <<"g">>), Method(Mutation, <<"f">>)>>],
     [target  |-> "EmptyResolver",
      options |-> Options(<<>>, undefined, undefined),
      methods |-> <<Method(Mutation, <<"f">>)>>],
     [target  |-> "BareResolver",
      options |-> Options(<<>>, undefined, undefined),
      methods |-> <<>>]}

\* a setSegmentMapping call
MappingCall(graphqlKind, segment, typeName, parentSegment) ==
    [op |-> "setSegmentMapping", graphqlKind |-> graphqlKind, segment |-> segment,
     typeName |-> typeName, parentSegment |-> parentSegment]

\* a registerField call
FieldCall(graphqlKind, segments) ==
    [op |-> "registerField",
     meta |-> [graphqlKind |-> graphqlKind, segments |-> segments,
               fieldName |-> <<"f">>]]

\* the setSegmentMapping calls of the collection phase
MappingCalls ==
    {MappingCall(Query, profile, T1, settings),
     MappingCall(Query, profile, T2, settings),
     MappingCall(Query, profile, T1, user),
     MappingCall(Mutation, profile, T1, undefined)}

\* the registerField calls of the collection phase
FieldCalls ==
    {FieldCall(Query, <<profile>>),
     FieldCall(Query, <<user, profile>>),
     FieldCall(Query, <<user, settings, profile>>),
     FieldCall(Mutation, <<user, profile>>)}

\* the number of registry calls in a run
MaxCalls == 3

\* ------------------------------------------------------------------------
\* The singleton NamespaceRegistry and what its callers observe

VARIABLES
    createdTypes,          \* Map<string, class>
    roots,                 \* Map<string, NamespaceRoot>, in insertion order
    edges,                 \* NamespaceEdge[]
    fields,                \* FieldMetadata[]
    classDefaultLeafType,  \* WeakMap<Function, string>
    segmentToTypeName,     \* Map<string, string>
    leafToParent,          \* Map<string, string>
    dualResolvers,         \* Function[]
    originalResolvers,     \* Function[]
    attached,              \* the classes made resolvers of an output type by
                           \*   Resolver(() => type) and ResolveField
    constructed,           \* heap: classes constructed so far, per name
    returned,              \* history: the classes handed out, per type name
    accepted,              \* history: <<kind, segment, parent>> -> typeName of
                           \*   the last setSegmentMapping that returned
    rootsSeen,             \* history: every entry `roots` has held after a call
    providers,             \* what the last buildDynamicProviders returned
    thrown,                \* the error the last call threw, NoError if none
    log,                   \* history: the collection calls of a run, in order
    calls                  \* the number of calls so far

vars == <<createdTypes, roots, edges, fields, classDefaultLeafType,
          segmentToTypeName, leafToParent, dualResolvers, originalResolvers,
          attached, constructed, returned, accepted, rootsSeen, providers,
          thrown, log, calls>>

\* the registry object as a value
Reg ==
    [createdTypes         |-> createdTypes,
     roots                |-> roots,
     edges                |-> edges,
     fields               |-> fields,
     classDefaultLeafType |-> classDefaultLeafType,
     segmentToTypeName    |-> segmentToTypeName,
     leafToParent         |-> leafToParent,
     dualResolvers        |-> dualResolvers,
     originalResolvers    |-> originalResolvers,
     attached             |-> attached,
     mappingCalls         |-> <<>>,
     constructed          |-> constructed,
     returned             |-> returned,
     thrown               |-> NoError]

\* a call ends with the registry r
Commit(r) ==
    /\ calls < MaxCalls
    /\ calls' = calls + 1
    /\ createdTypes' = r.createdTypes
    /\ roots' = r.roots
    /\ edges' = r.edges
    /\ fields' = r.fields
    /\ classDefaultLeafType' = r.classDefaultLeafType
    /\ segmentToTypeName' = r.segmentToTypeName
    /\ leafToParent' = r.leafToParent
    /\ dualResolvers' = r.dualResolvers
    /\ originalResolvers' = r.originalResolvers
    /\ attached' = r.attached
    /\ constructed' = r.constructed
    /\ returned' = r.returned
    /\ rootsSeen' = rootsSeen \cup {r.roots[i] : i \in DOMAIN r.roots}
    /\ thrown' = r.thrown

Init ==
    /\ createdTypes = <<>>
    /\ roots = <<>>
    /\ edges = <<>>
    /\ fields = <<>>
    /\ classDefaultLeafType = <<>>
    /\ segmentToTypeName = <<>>
    /\ leafToParent = <<>>
    /\ dualResolvers = <<>>
    /\ originalResolvers = <<>>
    /\ attached = <<>>
    /\ constructed = <<>>
    /\ returned = <<>>
    /\ accepted = <<>>
    /\ providers = <<>>
    /\ rootsSeen = {}
    /\ thrown = NoError
    /\ log = <<>>
    /\ calls = 0

SetSegmentMapping ==
    \E graphqlKind \in GraphQLKind, segment \in SegmentNames, args \in MappingArgs :
        LET r == setSegmentMapping(Reg, graphqlKind, segment, args[1], args[2])
        IN  /\ Commit(r)
            /\ accepted' =
                   IF r.thrown = NoError
                   THEN MapSet(accepted,
                               <<graphqlKind, segment, OrElse(args[2], <<>>)>>,
                               args[1])
                   ELSE accepted
            /\ UNCHANGED <<providers, log>>

GetOrCreateObjectType ==
    \E typeName \in {T1} :
        /\ Commit(getOrCreateObjectType(Reg, typeName))
        /\ UNCHANGED <<accepted, providers, log>>

EnsureRoot ==
    \E graphqlKind \in {Mutation}, rootName \in RootNames,
       typeName \in OptionalTypeNames :
        /\ Commit(ensureRoot(Reg, graphqlKind, rootName, typeName))
        /\ UNCHANGED <<accepted, providers, log>>

EnsureEdge ==
    \E graphqlKind \in {Mutation}, args \in EdgeArgs :
        /\ Commit(ensureEdge(Reg, graphqlKind, args[1], args[2]))
        /\ UNCHANGED <<accepted, providers, log>>

RegisterField ==
    \E graphqlKind \in GraphQLKind, segments \in FieldPaths :
        /\ Commit(registerField(Reg, [graphqlKind |-> graphqlKind,
                                      segments    |-> segments,
                                      fieldName   |-> <<"f">>]))
        /\ UNCHANGED <<accepted, providers, log>>

SetDefaultLeafTypeForClass ==
    \E ctor \in Constructors, typeName \in {T1} :
        /\ Commit(setDefaultLeafTypeForClass(Reg, ctor, typeName))
        /\ UNCHANGED <<accepted, providers, log>>

MergeFieldsIntoNamespace ==
    \E graphqlKind \in {Mutation}, namespace \in Namespaces,
       targetTypeName \in {T1} :
        /\ Commit(mergeFieldsIntoNamespace(Reg, graphqlKind, namespace, targetTypeName))
        /\ UNCHANGED <<accepted, providers, log>>

RECURSIVE NoteAccepted(_, _)
\* history: the setSegmentMapping calls of a declaration that returned
NoteAccepted(acc, mappingCalls) ==
    IF mappingCalls = <<>> THEN acc
    ELSE NoteAccepted(MapSet(acc, <<mappingCalls[1][1], mappingCalls[1][2],
                                    mappingCalls[1][3]>>, mappingCalls[1][4]),
                      Tail(mappingCalls))

\* a class decorated with @NamespaceResolver is loaded
Declare ==
    \E d \in Declarations :
        LET r == NamespaceResolver(Reg, d.target, d.options, d.methods)
        IN  /\ Commit(r)
            /\ accepted' = NoteAccepted(accepted, r.mappingCalls)
            /\ UNCHANGED <<providers, log>>

BuildDynamicProviders ==
    LET built == buildDynamicProviders(Reg)
    IN  /\ Commit(built.reg)
        /\ providers' = built.providers
        /\ UNCHANGED <<accepted, log>>

Next ==
    \/ SetSegmentMapping
    \/ GetOrCreateObjectType
    \/ EnsureRoot
    \/ EnsureEdge
    \/ RegisterField
    \/ SetDefaultLeafTypeForClass
    \/ MergeFieldsIntoNamespace
    \/ BuildDynamicProviders

Spec == Init /\ [][Next]_vars

\* one collection call on a registry
ApplyCall(r, call) ==
    IF call.op = "registerField"
    THEN registerField(r, call.meta)
    ELSE setSegmentMapping(r, call.graphqlKind, call.segment, call.typeName,
                           call.parentSegment)

\* a setSegmentMapping call of the collection phase
CollectMapping ==
    \E call \in MappingCalls :
        LET r == ApplyCall(Reg, call)
        IN  /\ Commit(r)
            /\ log' = Append(log, call)
            /\ accepted' =
                   IF r.thrown = NoError
                   THEN MapSet(accepted,
                               <<call.graphqlKind, call.segment,
                                 OrElse(call.parentSegment, <<>>)>>,
                               call.typeName)
                   ELSE accepted
            /\ UNCHANGED providers

\* a registerField call of the collection phase
CollectField ==
    \E call \in FieldCalls :
        /\ Commit(ApplyCall(Reg, call))
        /\ log' = Append(log, call)
        /\ UNCHANGED <<accepted, providers>>

\* the collection phase alone, every call logged
CollectNext ==
    \/ CollectMapping
    \/ CollectField

CollectSpec == Init /\ [][CollectNext]_vars

\* the library as an application uses it: decorated classes are loaded,
\* NamespaceModule.forRoot compiles
DeclNext ==
    \/ Declare
    \/ BuildDynamicProviders

DeclSpec == Init /\ [][DeclNext]_vars

\* root names by the root they are to denote: the forms of one name, which
\* differ in the case of the first letter or in hyphenated against camel
\* form, and the name in PascalCase
RootNameForms ==
    {[forms  |-> {<<"U","s","e","r">>, <<"u","s","e","r">>},
      pascal |-> <<"U","s","e","r">>],
     [forms  |-> {<<"m","y","-","n","s">>, <<"m","y","N","s">>},
      pascal |-> <<"M","y","N","s">>]}

\* the arguments of the ensureRoot calls of RootSpec
RootCalls ==
    {[op |-> "ensureRoot", graphqlKind |-> k, rootName |-> f, typeName |-> t] :
         k \in GraphQLKind, f \in UNION {n.forms : n \in RootNameForms},
         t \in OptionalTypeNames}

\* an ensureRoot call, its arguments noted in the log
EnsureRootCall ==
    \E call \in RootCalls :
        /\ Commit(ensureRoot(Reg, call.graphqlKind, call.rootName, call.typeName))
        /\ log' = Append(log, call)
        /\ UNCHANGED <<accepted, providers>>

RootNext == EnsureRootCall

\* ensureRoot alone, called with the forms of the root names
RootSpec == Init /\ [][RootNext]_vars

\* the segment lists given to ensureEdge: none, one, two and three segments
EdgePaths ==
    {<<>>, <<user>>, <<settings>>, <<user, profile>>,
     <<user, settings, profile>>}

\* the namespaces given to mergeFieldsIntoNamespace: one without a segment
\* and one of two segments
MergeNamespaces == {<<".">>, user \o <<".">> \o profile}

\* an ensureEdge call with none, one, two or three segments
EnsureEdgeCall ==
    \E graphqlKind \in GraphQLKind, segments \in EdgePaths,
       targetTypeName \in OptionalTypeNames :
        /\ Commit(ensureEdge(Reg, graphqlKind, segments, targetTypeName))
        /\ UNCHANGED <<accepted, providers, log>>

\* a mergeFieldsIntoNamespace call
MergeCall ==
    \E graphqlKind \in GraphQLKind, namespace \in MergeNamespaces :
        /\ Commit(mergeFieldsIntoNamespace(Reg, graphqlKind, namespace, T2))
        /\ UNCHANGED <<accepted, providers, log>>

EdgeNext ==
    \/ EnsureEdgeCall
    \/ MergeCall

\* ensureEdge and mergeFieldsIntoNamespace alone
EdgeSpec == Init /\ [][EdgeNext]_vars

\* ------------------------------------------------------------------------
\* Properties

\* the parents a segment can be looked up under
ParentNames == {<<>>, user, settings, profile}

\* C1: a setSegmentMapping for a (kind, segment) that an earlier call, which
\* returned, mapped under another parent throws the conflict error, whatever
\* the type names and whatever ran in between; undefined counts as ''.
C1_ConflictDetected ==
    \A a \in DOMAIN accepted :
        \A typeName \in TypeNames, parentSegment \in ParentArgs \cup {<<>>} :
            OrElse(parentSegment, <<>>) # a[3] =>
                setSegmentMapping(Reg, a[1], a[2], typeName, parentSegment).thrown
                    = ConflictError

\* a second mapping of a segment, under another parent, has just thrown
C1_Witness ==
    /\ thrown = ConflictError
    /\ DOMAIN accepted = {<<Mutation, profile, user>>}
    /\ calls = 3

\* the primary mappings a (kind, segment) has, by the parent they are under
PrimaryParents(graphqlKind, segment) ==
    {p \in ParentNames : getSegmentMapping(Reg, graphqlKind, segment, p) # undefined}

\* C2: every (kind, segment) has at most one parent over the whole run (all
\* the calls that returned agree on it), the registry records that parent,
\* and at most one primary mapping exists for the pair.
C2_OneParentPerSegment ==
    /\ \A a, b \in DOMAIN accepted :
           a[1] = b[1] /\ a[2] = b[2] => a[3] = b[3]
    /\ \A a \in DOMAIN accepted :
           /\ getParentForLeaf(Reg, a[1], a[2]) = a[3]
           /\ PrimaryParents(a[1], a[2]) = {a[3]}
    /\ \A graphqlKind \in GraphQLKind, segment \in SegmentNames :
           Cardinality(PrimaryParents(graphqlKind, segment)) <= 1

\* a segment mapped under settings, first to T1 and then to T2, and then
\* refused under another parent
C2_Witness ==
    /\ thrown = ConflictError
    /\ accepted = (<<Query, profile, settings>> :> T2)
    /\ getParentForLeaf(Reg, Query, profile) = settings
    /\ DOMAIN createdTypes = {T1, T2}
    /\ DOMAIN classDefaultLeafType = {}
    /\ returned[T1] # {}
    /\ calls = 3

\* C3: the type cache holds one class per name: every request for a name was
\* answered with the one class constructed for it, which is still the cached
\* one, and two names never share a class.
C3_TypeIdentity ==
    /\ DOMAIN returned = DOMAIN createdTypes
    /\ \A name \in DOMAIN createdTypes :
           /\ returned[name] = {createdTypes[name]}
           /\ createdTypes[name] = [name |-> name, serial |-> 1]
           /\ constructed[name] = 1
    /\ \A x, y \in DOMAIN createdTypes :
           x # y => createdTypes[x] # createdTypes[y]

\* one class T1 serves a root and a segment mapping, next to another class
C3_Witness ==
    /\ \E i \in DOMAIN roots : roots[i].root.typeName = T1
    /\ \E key \in DOMAIN segmentToTypeName : segmentToTypeName[key] = T1
    /\ returned[T1] = {createdTypes[T1]}
    /\ Cardinality(DOMAIN createdTypes) >= 2
    /\ calls = 3

\* C4: no two edges agree on kind, joined path and target type, and
\* registering an edge of the list again leaves the list as it is.
C4_NoDuplicateEdges ==
    /\ \A i, j \in DOMAIN edges :
           /\ edges[i].graphqlKind = edges[j].graphqlKind
           /\ Join(edges[i].segments, <<".">>) = Join(edges[j].segments, <<".">>)
           /\ edges[i].targetTypeName = edges[j].targetTypeName
           => i = j
    /\ \A i \in DOMAIN edges :
           ensureEdge(Reg, edges[i].graphqlKind, edges[i].segments,
                      edges[i].targetTypeName).edges = edges

\* two registrations of one path were compiled into a single edge
C4_Witness ==
    /\ calls = 3
    /\ providers # <<>>
    /\ Len(fields) = 2
    /\ fields[1] = fields[2]
    /\ Len(fields[1].segments) = 2
    /\ Len(edges) = 1

\* C5: a root, once recorded, keeps its type name: every entry that `roots`
\* has ever held is still the entry of its key, and ensureRoot for its
\* (kind, root name) returns it whatever typeName is passed.
C5_RootTypeFixed ==
    \A e \in rootsSeen :
        /\ RootsHas(Reg, e.key)
        /\ RootsGet(Reg, e.key) = e.root
        /\ \A rootName \in RootNames \cup {user},
                  typeName \in OptionalTypeNames \cup TypeNames :
               createRootKey(e.root.graphqlKind, normalizeNamespaceName(rootName)) = e.key
               => ensureRootResult(Reg, e.root.graphqlKind, rootName, typeName) = e.root

\* the root user was created with type T1, and a later ensureEdge under it,
\* which ensures the root without a typeName, kept T1
C5_Witness ==
    /\ roots = <<[key  |-> createRootKey(Mutation, user),
                  root |-> [graphqlKind |-> Mutation, typeName |-> T1]]>>
    /\ \E i \in DOMAIN edges :
           edges[i].graphqlKind = Mutation /\ edges[i].segments[1] = user

\* the registrations a caller can make
FieldMetas ==
    {[graphqlKind |-> k, segments |-> p, fieldName |-> <<"f">>] :
         k \in GraphQLKind, p \in FieldPaths}

\* the parent under which the calls that returned mapped (kind, leaf)
MappedParent(graphqlKind, leaf) ==
    IF \E a \in DOMAIN accepted : a[1] = graphqlKind /\ a[2] = leaf
    THEN (CHOOSE a \in DOMAIN accepted : a[1] = graphqlKind /\ a[2] = leaf)[3]
    ELSE undefined

\* the effective path of a registration, by the calls that returned
ExpectedPath(meta) ==
    IF Len(meta.segments) = 1 /\ Truthy(MappedParent(meta.graphqlKind, meta.segments[1]))
    THEN <<MappedParent(meta.graphqlKind, meta.segments[1]), meta.segments[1]>>
    ELSE meta.segments

\* the target type of a path of two or more segments, by the calls that returned
ExpectedTarget(graphqlKind, path) ==
    LET a == <<graphqlKind, path[Len(path)], path[Len(path) - 1]>>
    IN  IF a \in DOMAIN accepted THEN accepted[a]
        ELSE createDefaultTypeName(path[Len(path)], graphqlKind)

RootResolvers(ps) == {i \in DOMAIN ps : ps[i].resolver = "root"}

LinkResolvers(ps) == {i \in DOMAIN ps : ps[i].resolver = "link"}

\* C6: with a segment mapped under a non-empty parent, compiling a further
\* registration of the path [leaf] and compiling one of the path
\* [parent, leaf] give the same roots, edges, types and resolvers, the edge
\* [parent, leaf] with the mapped type among them.
C6_SingleSegmentEquivalence ==
    \A a \in DOMAIN accepted :
        a[3] # <<>> =>
            LET single == buildDynamicProviders(registerField(Reg,
                              [graphqlKind |-> a[1], segments |-> <<a[2]>>,
                               fieldName |-> <<"f">>]))
                full   == buildDynamicProviders(registerField(Reg,
                              [graphqlKind |-> a[1], segments |-> <<a[3], a[2]>>,
                               fieldName |-> <<"f">>]))
            IN  /\ single.reg.roots = full.reg.roots
                /\ single.reg.edges = full.reg.edges
                /\ single.reg.createdTypes = full.reg.createdTypes
                /\ single.providers = full.providers
                /\ \E i \in DOMAIN single.reg.edges :
                       single.reg.edges[i] = [graphqlKind    |-> a[1],
                                              segments       |-> <<a[3], a[2]>>,
                                              targetTypeName |-> accepted[a]]

\* profile was mapped under user, registered as [profile] and compiled into
\* the edge [user, profile]
C6_Witness ==
    /\ calls = 3
    /\ accepted = (<<Mutation, profile, user>> :> T1)
    /\ Len(fields) = 1
    /\ fields[1].graphqlKind = Mutation
    /\ fields[1].segments = <<profile>>
    /\ edges = <<[graphqlKind |-> Mutation, segments |-> <<user, profile>>,
                  targetTypeName |-> T1]>>
    /\ Len(providers) = 2

\* C7: compile gives every registration whose effective path has two or more
\* segments an edge whose target is the type mapped for (kind, last segment,
\* second-to-last segment) when there is one and the default name of the
\* last segment otherwise; the edges it adds have no other target.
C7_ExplicitMappingWins ==
    LET built == buildDynamicProviders(Reg).reg
    IN  /\ SubSeq(built.edges, 1, Len(edges)) = edges
        /\ \A i \in DOMAIN fields :
               LET path == ExpectedPath(fields[i])
               IN  Len(path) > 1 =>
                       \E j \in DOMAIN built.edges :
                           built.edges[j] =
                               [graphqlKind    |-> fields[i].graphqlKind,
                                segments       |-> path,
                                targetTypeName |->
                                    ExpectedTarget(fields[i].graphqlKind, path)]
        /\ \A j \in (Len(edges) + 1) .. Len(built.edges) :
               built.edges[j].targetTypeName =
                   ExpectedTarget(built.edges[j].graphqlKind, built.edges[j].segments)

\* a three-segment registration was compiled into an edge to the type
\* mapped for its last segment under its second-to-last
C7_Witness ==
    /\ calls = 3
    /\ accepted = (<<Query, profile, settings>> :> T2)
    /\ Len(fields) = 1
    /\ fields[1].graphqlKind = Query
    /\ fields[1].segments = <<user, settings, profile>>
    /\ edges = <<[graphqlKind |-> Query, segments |-> <<user, settings, profile>>,
                  targetTypeName |-> T2]>>
    /\ Len(providers) = 2

\* a fresh registry holding one two-segment registration of each kind, both
\* under the same root name
ScenarioA ==
    /\ calls = 2
    /\ Len(fields) = 2
    /\ fields[1].graphqlKind # fields[2].graphqlKind
    /\ Len(fields[1].segments) = 2
    /\ Len(fields[2].segments) = 2
    /\ fields[1].segments[1] = fields[2].segments[1]

\* C8: compiling ScenarioA gives one root per kind for the root name, typed
\* <Root>Mutations and <Root>Queries, one edge per registration to the
\* default name of its last segment, two root resolvers and two link
\* resolvers.
C8_RootsAndEdgesPerKind ==
    ScenarioA =>
        LET built    == buildDynamicProviders(Reg)
            rootName == fields[1].segments[1]
            RootOf(k) == [key  |-> k \o <<":">> \o rootName,
                          root |-> [graphqlKind |-> k,
                                    typeName |-> pascalCase(rootName) \o
                                        (IF k = Mutation
                                         THEN <<"M","u","t","a","t","i","o","n","s">>
                                         ELSE <<"Q","u","e","r","i","e","s">>)]]
            EdgeOf(m) == [graphqlKind    |-> m.graphqlKind,
                          segments       |-> m.segments,
                          targetTypeName |->
                              createDefaultTypeName(m.segments[2], m.graphqlKind)]
        IN  /\ built.reg.roots =
                   <<RootOf(fields[1].graphqlKind), RootOf(fields[2].graphqlKind)>>
            /\ built.reg.edges = <<EdgeOf(fields[1]), EdgeOf(fields[2])>>
            /\ Len(built.providers) = 4
            /\ Cardinality(RootResolvers(built.providers)) = 2
            /\ Cardinality(LinkResolvers(built.providers)) = 2
            /\ \A k \in GraphQLKind :
                   \E i \in RootResolvers(built.providers) :
                       /\ built.providers[i].operation = k
                       /\ built.providers[i].fieldName = rootName
                       /\ built.providers[i].type.name = RootOf(k).root.typeName

\* [user, profile] was registered for Mutation and for Query and compiled
C8_Witness ==
    /\ calls = 3
    /\ Len(fields) = 2
    /\ fields[1].graphqlKind = Mutation
    /\ fields[2].graphqlKind = Query
    /\ fields[1].segments = <<user, profile>>
    /\ fields[2].segments = <<user, profile>>
    /\ Len(roots) = 2
    /\ Len(edges) = 2
    /\ Len(providers) = 4

\* C9: for a registration whose effective path is the single segment s,
\* compile ensures the root of s, typed with the default name of s when the
\* root is new, records no edge for it and returns one root resolver for it;
\* every link resolver returned comes from an edge of two or more segments.
\* In a fresh registry holding only such registrations compile records no
\* edge and returns root resolvers only.
C9_RootLevelField ==
    LET built == buildDynamicProviders(Reg)
    IN  /\ \A i \in DOMAIN fields :
               LET k    == fields[i].graphqlKind
                   path == ExpectedPath(fields[i])
                   key  == createRootKey(k, path[1])
               IN  Len(path) = 1 =>
                       /\ RootsHas(built.reg, key)
                       /\ ~RootsHas(Reg, key) =>
                              RootsGet(built.reg, key) =
                                  [graphqlKind |-> k,
                                   typeName |-> createDefaultTypeName(path[1], k)]
                       /\ \A j \in DOMAIN built.reg.edges :
                              ~(/\ built.reg.edges[j].graphqlKind = k
                                /\ built.reg.edges[j].segments = path)
                       /\ Cardinality({p \in RootResolvers(built.providers) :
                              /\ built.providers[p].operation = k
                              /\ built.providers[p].fieldName = path[1]}) = 1
        /\ \A p \in LinkResolvers(built.providers) :
               \E j \in DOMAIN built.reg.edges :
                   /\ Len(built.reg.edges[j].segments) >= 2
                   /\ built.providers[p].fieldName =
                          built.reg.edges[j].segments[Len(built.reg.edges[j].segments)]
                   /\ built.providers[p].type.name = built.reg.edges[j].targetTypeName
        /\ (/\ calls = Len(fields)
            /\ \A i \in DOMAIN fields : Len(fields[i].segments) = 1)
           => /\ built.reg.edges = <<>>
              /\ LinkResolvers(built.providers) = {}
              /\ Len(built.providers) = Len(built.reg.roots)

\* the one registration [profile] of a fresh registry was compiled
C9_Witness ==
    /\ calls = 2
    /\ Len(fields) = 1
    /\ fields[1].graphqlKind = Query
    /\ fields[1].segments = <<profile>>
    /\ roots = <<[key  |-> Query \o <<":">> \o profile,
                  root |-> [graphqlKind |-> Query,
                            typeName |-> createDefaultTypeName(profile, Query)]]>>
    /\ edges = <<>>
    /\ Len(providers) = 1
    /\ providers[1].resolver = "root"

\* C10: registerField and compile throw nothing and registerField records
\* no parent; compile gives every two-segment registration whose leaf no
\* setSegmentMapping call has mapped the edge of its own path, also when
\* the same leaf is registered under several parents.
C10_NoConflictFromRegistrations ==
    LET built == buildDynamicProviders(Reg).reg
    IN  /\ built.thrown = NoError
        /\ thrown = ConflictError => calls > Len(fields)
        /\ \A meta \in FieldMetas :
               /\ registerField(Reg, meta).thrown = NoError
               /\ registerField(Reg, meta).leafToParent = leafToParent
               /\ registerField(Reg, meta).fields = Append(fields, meta)
        /\ \A i \in DOMAIN fields :
               LET k == fields[i].graphqlKind
                   p == fields[i].segments
               IN  (Len(p) = 2 /\ MappedParent(k, p[2]) = undefined) =>
                       \E j \in DOMAIN built.edges :
                           built.edges[j] =
                               [graphqlKind    |-> k,
                                segments       |-> p,
                                targetTypeName |-> createDefaultTypeName(p[2], k)]

\* profile was registered under user and under settings, never mapped, and
\* compiled into the two edges
C10_Witness ==
    /\ calls = 3
    /\ thrown = NoError
    /\ DOMAIN accepted = {}
    /\ Len(fields) = 2
    /\ fields[1].graphqlKind = Mutation
    /\ fields[2].graphqlKind = Mutation
    /\ fields[1].segments = <<user, profile>>
    /\ fields[2].segments = <<settings, profile>>
    /\ Len(edges) = 2
    /\ edges[1].segments = <<user, profile>>
    /\ edges[2].segments = <<settings, profile>>
    /\ edges[1].targetTypeName = edges[2].targetTypeName
    /\ Len(providers) = 4

\* the type name reached by the parent path s1..s(n-1) of an edge: the type
\* of the root s1 when n = 2, otherwise the target of the edge s1..s(n-1)
\* when the registry has one, and the type mapped for, or the default name
\* of, s(n-1)
ParentPathType(r, edge) ==
    LET n      == Len(edge.segments)
        parent == SubSeq(edge.segments, 1, n - 1)
    IN  IF n = 2
        THEN RootsGet(r, createRootKey(edge.graphqlKind, edge.segments[1])).typeName
        ELSE IF \E i \in DOMAIN r.edges :
                    /\ r.edges[i].graphqlKind = edge.graphqlKind
                    /\ r.edges[i].segments = parent
             THEN r.edges[CHOOSE i \in DOMAIN r.edges :
                              /\ r.edges[i].graphqlKind = edge.graphqlKind
                              /\ r.edges[i].segments = parent].targetTypeName
             ELSE OrElse(getSegmentMapping(r, edge.graphqlKind,
                                           edge.segments[n - 1], edge.segments[n - 2]),
                         createDefaultTypeName(edge.segments[n - 1], edge.graphqlKind))

\* C11: compile returns, for every edge s1..sn with n >= 2, a link resolver
\* that attaches the field sn to the type of the parent path s1..s(n-1) and
\* resolves it to the edge's target type.
C11_LinkResolverOnParentPath ==
    LET built == buildDynamicProviders(Reg)
    IN  \A j \in DOMAIN built.reg.edges :
            LET edge == built.reg.edges[j]
            IN  Len(edge.segments) >= 2 =>
                    \E p \in LinkResolvers(built.providers) :
                        /\ built.providers[p].fieldName = edge.segments[Len(edge.segments)]
                        /\ built.providers[p].parentType.name =
                               ParentPathType(built.reg, edge)
                        /\ built.providers[p].type.name = edge.targetTypeName

\* the (kind, root name) pairs of the effective paths of the registrations
RootsOfRegistrations ==
    {<<fields[i].graphqlKind, normalizeNamespaceName(ExpectedPath(fields[i])[1])>> :
         i \in DOMAIN fields}

\* the (kind, root name) pairs of the edges of a registry
RootsOfEdges(r) ==
    {<<r.edges[j].graphqlKind, normalizeNamespaceName(r.edges[j].segments[1])>> :
         j \in DOMAIN r.edges}

\* the root resolvers among ps for the root (kind, name)
RootResolversFor(ps, graphqlKind, rootName) ==
    {p \in RootResolvers(ps) :
         ps[p].operation = graphqlKind /\ ps[p].fieldName = rootName}

\* every root of a registration has exactly one root resolver, which is
\* typed with the typeName recorded for the root
OneRootResolverPerRegistrationRoot(built) ==
    \A u \in RootsOfRegistrations :
        /\ RootsHas(built.reg, createRootKey(u[1], u[2]))
        /\ Cardinality(RootResolversFor(built.providers, u[1], u[2])) = 1
        /\ \A p \in RootResolversFor(built.providers, u[1], u[2]) :
               built.providers[p].type.name =
                   RootsGet(built.reg, createRootKey(u[1], u[2])).typeName

\* C12 as stated: one root resolver per (kind, root name) of the
\* registrations' effective paths, typed as the root is, and no root
\* resolver for a (kind, root name) that no registration and no edge uses.
C12_RootResolversOnlyForUsedRoots ==
    LET built == buildDynamicProviders(Reg)
    IN  /\ OneRootResolverPerRegistrationRoot(built)
        /\ \A p \in RootResolvers(built.providers) :
               <<built.providers[p].operation, built.providers[p].fieldName>>
                   \in RootsOfRegistrations \cup RootsOfEdges(built.reg)

\* C12 amended: one root resolver per root recorded in the registry, in the
\* order of the records, binding the root's name to its recorded typeName;
\* the roots of the registrations' effective paths are among the records,
\* and no root resolver is returned for a (kind, root name) without a record.
C12_OneRootResolverPerRoot ==
    LET built == buildDynamicProviders(Reg)
    IN  /\ OneRootResolverPerRegistrationRoot(built)
        /\ Cardinality(RootResolvers(built.providers)) = Len(built.reg.roots)
        /\ \A i \in DOMAIN built.reg.roots :
               LET entry == built.reg.roots[i]
               IN  /\ built.providers[i].resolver = "root"
                   /\ built.providers[i].operation = entry.root.graphqlKind
                   /\ createRootKey(built.providers[i].operation,
                                    built.providers[i].fieldName) = entry.key
                   /\ built.providers[i].type.name = entry.root.typeName
                   /\ built.providers[i].type =
                          built.reg.createdTypes[entry.root.typeName]
        /\ \A p \in RootResolvers(built.providers) :
               RootsHas(built.reg, createRootKey(built.providers[p].operation,
                                                 built.providers[p].fieldName))

\* the root user, recorded by ensureRoot with the type T1 and used by no
\* registration and no edge, was compiled next to the root of a
\* registration: two root resolvers came back
C12_Witness ==
    /\ calls = 3
    /\ Len(fields) = 1
    /\ fields[1].segments = <<profile>>
    /\ edges = <<>>
    /\ Len(roots) = 2
    /\ roots[1].root.typeName = T1
    /\ Len(providers) = 2
    /\ providers[1].resolver = "root"
    /\ providers[1].fieldName = user
    /\ providers[1].type.name = T1
    /\ providers[2].resolver = "root"
    /\ providers[2].fieldName = profile

\* the type name compile binds to the path of a declared class: the type of
\* the root for a one-segment effective path, the targets of the edges of
\* the path otherwise
BoundTypeNames(built, graphqlKind, namespace) ==
    LET path == ExpectedPath([graphqlKind |-> graphqlKind,
                              segments    |-> parseNamespaceSegments(namespace)])
    IN  IF Len(path) = 1
        THEN IF RootsHas(built.reg, createRootKey(graphqlKind, path[1]))
             THEN {RootsGet(built.reg, createRootKey(graphqlKind, path[1])).typeName}
             ELSE {}
        ELSE {built.reg.edges[j].targetTypeName : j \in
                 {j \in DOMAIN built.reg.edges :
                      /\ built.reg.edges[j].graphqlKind = graphqlKind
                      /\ built.reg.edges[j].segments = path}}

\* C13: the output type a declaration attaches its leaf fields to is the
\* type compile binds to the effective path of its registrations: the
\* root's typeName for a one-segment path, the edge's targetTypeName for a
\* longer one.
C13_LeafTypeIsBoundType ==
    LET built == buildDynamicProviders(Reg)
    IN  \A i \in DOMAIN attached :
            attached[i].fieldNames # <<>> =>
                BoundTypeNames(built, attached[i].graphqlKind, attached[i].namespace)
                    = {attached[i].type.name}

\* C14: after compile, the root of a root-level declaration and its root
\* resolver carry the type name of the declaration, the explicit typeName
\* when one is given.
C14_RootCarriesDeclaredTypeName ==
    LET built == buildDynamicProviders(Reg)
    IN  \A i \in DOMAIN attached :
            LET a    == attached[i]
                segs == parseNamespaceSegments(a.namespace)
                key  == createRootKey(a.graphqlKind, segs[1])
            IN  Len(segs) = 1 =>
                    /\ RootsHas(built.reg, key)
                    /\ RootsGet(built.reg, key).typeName = a.type.name
                    /\ \A p \in RootResolversFor(built.providers, a.graphqlKind,
                                                 normalizeNamespaceName(segs[1])) :
                           built.providers[p].type.name = a.type.name

RECURSIVE Replay(_, _, _)
\* the registry after the calls `order[i]`, `order[i+1]`, ... of `callSeq`
\* on r; thrown stays set once a call has thrown
Replay(r, callSeq, order) ==
    IF order = <<>> THEN r
    ELSE Replay(ApplyCall(r, callSeq[order[1]]), callSeq, Tail(order))

\* the orders in which the calls of callSeq can be made
Orderings(callSeq) ==
    {[i \in DOMAIN callSeq |-> f[i]] : f \in Permutations(DOMAIN callSeq)}

\* what the claim compares: the mappings after collection, and the roots,
\* the set of edges and the set of types after compile
Outcome(r) ==
    LET built == buildDynamicProviders(r).reg
    IN  [segmentToTypeName |-> r.segmentToTypeName,
         leafToParent      |-> r.leafToParent,
         roots             |-> {built.roots[i] : i \in DOMAIN built.roots},
         edges             |-> {built.edges[i] : i \in DOMAIN built.edges},
         types             |-> DOMAIN built.createdTypes]

\* two setSegmentMapping calls of callSeq give one (kind, parent, segment)
\* different type names
Remaps(callSeq) ==
    \E i, j \in DOMAIN callSeq :
        /\ callSeq[i].op = "setSegmentMapping"
        /\ callSeq[j].op = "setSegmentMapping"
        /\ callSeq[i].graphqlKind = callSeq[j].graphqlKind
        /\ callSeq[i].segment = callSeq[j].segment
        /\ OrElse(callSeq[i].parentSegment, <<>>) = OrElse(callSeq[j].parentSegment, <<>>)
        /\ callSeq[i].typeName # callSeq[j].typeName

\* the registry of the state is the one the logged calls build
LogIsRun ==
    LET r == Replay(EmptyRegistry, log, [i \in DOMAIN log |-> i])
    IN  /\ r.fields = fields
        /\ r.segmentToTypeName = segmentToTypeName
        /\ r.leafToParent = leafToParent
        /\ r.createdTypes = createdTypes

\* every ordering of the logged calls in which nothing is thrown has the
\* outcome of the logged order, when that threw nothing; every ordering is
\* the logged order of some run, so any two such orderings agree
OrderingsAgree ==
    LET a == Replay(EmptyRegistry, log, [i \in DOMAIN log |-> i])
        outcome == Outcome(a)
    IN  a.thrown = NoError =>
            \A g \in Orderings(log) :
                LET b == Replay(EmptyRegistry, log, g)
                IN  b.thrown = NoError => Outcome(b) = outcome

\* C15 as stated: any two orderings of the same registerField and
\* setSegmentMapping calls in which no call throws give the same segment
\* mappings, roots, set of edges and set of types.
C15_OrderIrrelevant ==
    LogIsRun /\ OrderingsAgree

\* C15 amended: the same, for calls among which no two setSegmentMapping
\* calls give one (kind, parent, segment) different type names.
C15_OrderIrrelevantWithoutRemap ==
    LogIsRun /\ (~Remaps(log) => OrderingsAgree)

\* a mapping made between two registrations that it bears on: the six
\* orderings throw nothing and agree
C15_Witness ==
    /\ calls = 3
    /\ log = <<FieldCall(Query, <<profile>>),
               MappingCall(Query, profile, T1, settings),
               FieldCall(Query, <<user, settings, profile>>)>>
    /\ thrown = NoError
    /\ Len(fields) = 2
    /\ Cardinality(Orderings(log)) = 6

\* C16: compile drains the Field Registry: the registry that compile leaves
\* holds no registration, so a second compile has none to process.
C16_CompileDrainsFields ==
    LET first  == buildDynamicProviders(Reg)
        second == forRoot(first.reg)
    IN  /\ first.reg.fields = <<>>
        /\ BuildEdgesFromFields(first.reg, 1) = first.reg
        /\ second.reg.fields = <<>>

\* the graph and the type cache of r are those of the state
GraphFixed(r) ==
    /\ r.roots = roots
    /\ r.edges = edges
    /\ r.createdTypes = createdTypes

\* C17: once compile has run and returned its descriptors, the registry is
\* Compiled: no registerField, setSegmentMapping, ensureRoot or ensureEdge
\* call changes the roots, the edges or the type cache, and none is
\* accepted as a new registration or mapping.
C17_CompiledIsFinal ==
    providers # <<>> =>
        /\ \A meta \in FieldMetas :
               /\ registerField(Reg, meta).fields = fields
               /\ GraphFixed(buildDynamicProviders(registerField(Reg, meta)).reg)
        /\ \A graphqlKind \in GraphQLKind, segment \in SegmentNames,
              args \in MappingArgs :
               LET r == setSegmentMapping(Reg, graphqlKind, segment, args[1], args[2])
               IN  /\ GraphFixed(r)
                   /\ r.segmentToTypeName = segmentToTypeName
                   /\ r.leafToParent = leafToParent
        /\ \A graphqlKind \in GraphQLKind, rootName \in RootNames \cup {profile},
              typeName \in OptionalTypeNames :
               GraphFixed(ensureRoot(Reg, graphqlKind, rootName, typeName))
        /\ \A graphqlKind \in GraphQLKind, args \in EdgeArgs :
               GraphFixed(ensureEdge(Reg, graphqlKind, args[1], args[2]))

\* the mappings and the type cache of two registries are the same
SameMappingsAndTypes(a, b) ==
    /\ a.segmentToTypeName = b.segmentToTypeName
    /\ a.leafToParent = b.leafToParent
    /\ a.createdTypes = b.createdTypes
    /\ a.constructed = b.constructed

\* C18: a setSegmentMapping call that returned, made again with the same
\* arguments, throws nothing and leaves the primary mappings, the parents
\* of the segments and the type cache as the first call left them; so it
\* is for the second of two such calls of a run.
C18_SetSegmentMappingIdempotent ==
    /\ \A call \in MappingCalls :
           LET once  == ApplyCall(Reg, call)
               twice == ApplyCall(once, call)
           IN  once.thrown = NoError =>
                   /\ twice.thrown = NoError
                   /\ SameMappingsAndTypes(twice, once)
    /\ (/\ Len(log) >= 2
        /\ log[Len(log)] = log[Len(log) - 1]
        /\ log[Len(log)].op = "setSegmentMapping"
        /\ Replay(EmptyRegistry, log, [i \in 1 .. Len(log) - 1 |-> i]).thrown = NoError)
       => /\ thrown = NoError
          /\ SameMappingsAndTypes(Reg,
                 Replay(EmptyRegistry, log, [i \in 1 .. Len(log) - 1 |-> i]))

\* the same root-level mapping was made twice in a row
C18_Witness ==
    /\ calls = 2
    /\ log = <<MappingCall(Mutation, profile, T1, undefined),
               MappingCall(Mutation, profile, T1, undefined)>>
    /\ thrown = NoError
    /\ DOMAIN segmentToTypeName = {createSegmentMappingKey(Mutation, profile, undefined)}
    /\ constructed = (T1 :> 1)

\* what a lookup of (kind, parent, segment) is to return: the type of the
\* last setSegmentMapping call that returned for it, undefined without one
LastMapped(graphqlKind, segment, parentSegment) ==
    LET call == <<graphqlKind, segment, OrElse(parentSegment, <<>>)>>
    IN  IF call \in DOMAIN accepted THEN accepted[call] ELSE undefined

\* C19: getSegmentMapping(kind, segment, parent) returns the type name of
\* the last setSegmentMapping call that returned for that kind, parent and
\* segment, an absent parent read as '', and undefined when there was no
\* such call, also when the segment is mapped under another parent or for
\* the other kind; it reads segmentToTypeName and writes nothing.
C19_LookupReturnsLastMapping ==
    \A graphqlKind \in GraphQLKind, segment \in SegmentNames \cup {user},
       parentSegment \in ParentArgs \cup {<<>>} :
        getSegmentMapping(Reg, graphqlKind, segment, parentSegment) =
            LastMapped(graphqlKind, segment, parentSegment)

\* profile was mapped to T1 and then to T2 under settings for Query only:
\* the lookup gives T2 there, and nothing under user, at the root level or
\* for Mutation
C19_Witness ==
    /\ thrown = NoError
    /\ DOMAIN accepted = {<<Query, profile, settings>>}
    /\ T1 \in DOMAIN createdTypes
    /\ getSegmentMapping(Reg, Query, profile, settings) = T2
    /\ getSegmentMapping(Reg, Query, profile, user) = undefined
    /\ getSegmentMapping(Reg, Query, profile, undefined) = undefined
    /\ getSegmentMapping(Reg, Mutation, profile, settings) = undefined

\* the name, of RootNameForms, that a root name is a form of
NameOf(rootName) == CHOOSE n \in RootNameForms : rootName \in n.forms

\* 'Mutations' for Mutation, 'Queries' for Query
KindSuffix(graphqlKind) ==
    IF graphqlKind = Mutation
    THEN <<"M","u","t","a","t","i","o","n","s">>
    ELSE <<"Q","u","e","r","i","e","s">>

\* the root record that the registry holds for the root of a logged call
RootOfCall(call) ==
    RootsGet(Reg, createRootKey(call.graphqlKind, call.rootName))

\* the first logged call for the kind and the name of the i-th logged call
FirstCallFor(i) ==
    log[CHOOSE j \in 1 .. i :
            /\ log[j].graphqlKind = log[i].graphqlKind
            /\ NameOf(log[j].rootName) = NameOf(log[i].rootName)
            /\ \A h \in 1 .. j - 1 :
                   \/ log[h].graphqlKind # log[i].graphqlKind
                   \/ NameOf(log[h].rootName) # NameOf(log[i].rootName)]

\* there is one root record per kind and name that the logged ensureRoot
\* calls named, whatever form of the name they used
RootByKindAndNormalizedName ==
    /\ Len(roots) =
           Cardinality({<<log[i].graphqlKind, NameOf(log[i].rootName)>> :
                            i \in DOMAIN log})
    /\ \A i \in DOMAIN log, j \in DOMAIN log :
           (/\ log[i].graphqlKind = log[j].graphqlKind
            /\ NameOf(log[i].rootName) = NameOf(log[j].rootName))
           <=> createRootKey(log[i].graphqlKind, log[i].rootName) =
                   createRootKey(log[j].graphqlKind, log[j].rootName)
    /\ \A i \in DOMAIN log :
           RootsHas(Reg, createRootKey(log[i].graphqlKind, log[i].rootName))

\* C20 as stated: a root is identified by kind and normalized name, and a
\* root for which ensureRoot was called without a typeName has as type name
\* the PascalCase of the root name followed by 'Mutations' or 'Queries'.
C20_DefaultTypeWithoutTypeName ==
    /\ RootByKindAndNormalizedName
    /\ \A i \in DOMAIN log :
           ~Truthy(log[i].typeName) =>
               RootOfCall(log[i]).typeName =
                   NameOf(log[i].rootName).pascal \o KindSuffix(log[i].graphqlKind)

\* C20, amended: a root is identified by kind and normalized name, and a
\* root created by an ensureRoot call without a typeName has as type name
\* the PascalCase of the root name followed by 'Mutations' or 'Queries'
\* (a call for a root that exists leaves the root its type name).
C20_DefaultTypeOfCreatedRoot ==
    /\ RootByKindAndNormalizedName
    /\ \A i \in DOMAIN log :
           ~Truthy(FirstCallFor(i).typeName) =>
               RootOfCall(log[i]).typeName =
                   NameOf(log[i].rootName).pascal \o KindSuffix(log[i].graphqlKind)

\* ensureRoot was called for 'my-ns', then for 'myNs' and for 'User', each
\* time for Mutation without a typeName: there are two roots, the first
\* with the type MyNsMutations
C20_Witness ==
    /\ Len(log) = 3
    /\ log[1] = [op |-> "ensureRoot", graphqlKind |-> Mutation,
                 rootName |-> <<"m","y","-","n","s">>, typeName |-> undefined]
    /\ log[2] = [log[1] EXCEPT !.rootName = <<"m","y","N","s">>]
    /\ log[3] = [log[1] EXCEPT !.rootName = <<"U","s","e","r">>]
    /\ Len(roots) = 2
    /\ roots[1].root.typeName = <<"M","y","N","s">> \o KindSuffix(Mutation)
    /\ roots[2].root.typeName = <<"U","s","e","r">> \o KindSuffix(Mutation)

\* the edges of r that are the edge of a path to a type
EdgesOf(r, graphqlKind, segments, typeName) ==
    {i \in DOMAIN r.edges :
         r.edges[i] = [graphqlKind    |-> graphqlKind,
                       segments       |-> segments,
                       targetTypeName |-> typeName]}

\* C21: ensureEdge with no segment leaves the registry as it is; with one
\* segment it does what ensureRoot of that segment does and records no
\* edge; with more it has the root of the first segment recorded, the
\* target type in the type cache and the edge of the path recorded once,
\* the other edges kept.  mergeFieldsIntoNamespace passes the split
\* namespace on, an empty one changing nothing.
C21_EnsureEdgeCases ==
    /\ \A graphqlKind \in GraphQLKind, segments \in EdgePaths,
          targetTypeName \in OptionalTypeNames :
           LET after == ensureEdge(Reg, graphqlKind, segments, targetTypeName)
               finalTypeName ==
                   OrElse(targetTypeName,
                          createDefaultTypeName(segments[Len(segments)], graphqlKind))
           IN  CASE Len(segments) = 0 -> after = Reg
                 [] Len(segments) = 1 ->
                        /\ after = ensureRoot(Reg, graphqlKind, segments[1], undefined)
                        /\ RootsHas(after, createRootKey(graphqlKind, segments[1]))
                        /\ after.edges = edges
                 [] OTHER ->
                        /\ RootsHas(after, createRootKey(graphqlKind, segments[1]))
                        /\ finalTypeName \in DOMAIN after.createdTypes
                        /\ Cardinality(EdgesOf(after, graphqlKind, segments,
                                               finalTypeName)) = 1
                        /\ \/ after.edges = edges
                           \/ after.edges =
                                  Append(edges, [graphqlKind    |-> graphqlKind,
                                                 segments       |-> segments,
                                                 targetTypeName |-> finalTypeName])
                        /\ after.thrown = NoError
    /\ \A graphqlKind \in GraphQLKind :
           /\ mergeFieldsIntoNamespace(Reg, graphqlKind, <<".">>, T2) = Reg
           /\ mergeFieldsIntoNamespace(Reg, graphqlKind, user \o <<".">> \o profile, T2)
                  = ensureEdge(Reg, graphqlKind, <<user, profile>>, T2)

\* ensureEdge for [user, profile] with the target T1 was the one call on a
\* new registry: the root user, the types of the root and of the target
\* and the edge are recorded
C21_Witness ==
    /\ calls = 1
    /\ fields = <<>>
    /\ roots = <<[key  |-> createRootKey(Mutation, user),
                  root |-> [graphqlKind |-> Mutation,
                            typeName    |-> createDefaultTypeName(user, Mutation)]]>>
    /\ edges = <<[graphqlKind |-> Mutation, segments |-> <<user, profile>>,
                  targetTypeName |-> T1]>>
    /\ DOMAIN createdTypes = {createDefaultTypeName(user, Mutation), T1}

\* the declarations whose namespace has no path segment
EmptyDeclarations ==
    {d \in Declarations :
         Len(FilterBoolean(Split(NamespaceOf(d.options), "."))) = 0}

\* C23: a @NamespaceResolver declaration whose namespace has no path
\* segment ends with the EmptyNamespaceError and registers no field,
\* whether the class has nested methods or none.
C23_EmptyNamespaceRejected ==
    \A d \in EmptyDeclarations :
        LET after == NamespaceResolver(Reg, d.target, d.options, d.methods)
        IN  /\ after.thrown = EmptyNamespaceError
            /\ after.fields = fields

\* C24: every edge has two segments or more and a root recorded for its
\* kind and the normalized form of its first segment, before compile and
\* after it; so compile skips no edge and returns as many link resolvers
\* as there are edges.
C24_EveryEdgeHasItsRoot ==
    LET built == buildDynamicProviders(Reg)
    IN  /\ \A i \in DOMAIN edges :
               /\ Len(edges[i].segments) >= 2
               /\ RootsHas(Reg, createRootKey(edges[i].graphqlKind,
                                   normalizeNamespaceName(edges[i].segments[1])))
        /\ \A i \in DOMAIN built.reg.edges :
               RootsHas(built.reg, ParentRootKey(built.reg.edges[i]))
        /\ Cardinality(LinkResolvers(built.providers)) = Len(built.reg.edges)

\* compile has returned two link resolvers for the two edges of the graph
C24_Witness ==
    /\ Len(edges) = 2
    /\ Len(fields) >= 1
    /\ Cardinality(LinkResolvers(providers)) = 2
    /\ \A i \in DOMAIN edges : RootsHas(Reg, ParentRootKey(edges[i]))

\* the type names that the roots, the edges and the segment mappings of a
\* registry refer to
ReferencedTypeNames(r) ==
    {r.roots[i].root.typeName : i \in DOMAIN r.roots}
        \cup {r.edges[i].targetTypeName : i \in DOMAIN r.edges}
        \cup {r.segmentToTypeName[k] : k \in DOMAIN r.segmentToTypeName}

\* C25: every type name of a root, of an edge target or of a segment
\* mapping has its class in the type cache, and no type leaves the cache:
\* every name a class was ever constructed for is still cached.
C25_TypeNamesAreCached ==
    /\ ReferencedTypeNames(Reg) \subseteq DOMAIN createdTypes
    /\ DOMAIN constructed \subseteq DOMAIN createdTypes
    /\ DOMAIN returned \subseteq DOMAIN createdTypes

\* a root typed T1, an edge to a default type and a mapping to T2, all
\* three types cached
C25_Witness ==
    /\ \E i \in DOMAIN roots : roots[i].root.typeName = T1
    /\ \E i \in DOMAIN edges :
           edges[i].targetTypeName = createDefaultTypeName(profile, Mutation)
    /\ \E k \in DOMAIN segmentToTypeName : segmentToTypeName[k] = T2
    /\ {T1, T2, createDefaultTypeName(profile, Mutation)} \subseteq DOMAIN createdTypes

\* the logged calls but the last, replayed on a new registry
BeforeLastCall == Replay(EmptyRegistry, log, [i \in 1 .. Len(log) - 1 |-> i])

\* C26: a setSegmentMapping call that throws the conflict error leaves the
\* registry as it was: mappings, parents of the segments, roots, edges and
\* type cache are those before the call, and no class was constructed for
\* the rejected type name; so it is for the last call of a run when it threw.
C26_ConflictChangesNothing ==
    /\ \A call \in MappingCalls :
           LET after == ApplyCall(Reg, call)
           IN  after.thrown = ConflictError =>
                   /\ [after EXCEPT !.thrown = NoError] = Reg
                   /\ after.segmentToTypeName = segmentToTypeName
                   /\ after.leafToParent = leafToParent
                   /\ after.roots = roots
                   /\ after.edges = edges
                   /\ after.createdTypes = createdTypes
                   /\ after.constructed = constructed
    /\ thrown = ConflictError =>
           /\ log[Len(log)].op = "setSegmentMapping"
           /\ Reg = [BeforeLastCall EXCEPT !.thrown = NoError]

\* profile was mapped to T1 under user for Query; the call mapping it to T2
\* under settings threw, and there is no type T2
C26_Witness ==
    /\ log = <<MappingCall(Query, profile, T1, user),
               MappingCall(Query, profile, T2, settings)>>
    /\ thrown = ConflictError
    /\ DOMAIN createdTypes = {T1}
    /\ DOMAIN segmentToTypeName = {createSegmentMappingKey(Query, profile, user)}

\* C27: among the link resolvers that compile returns for the registrations
\* and the mappings collected, no two attach one field name to one parent
\* type with different target types.
C27_NoConflictingLinkResolvers ==
    LET ps == buildDynamicProviders(Reg).providers
    IN  \A i \in LinkResolvers(ps), j \in LinkResolvers(ps) :
            (/\ ps[i].fieldName = ps[j].fieldName
             /\ ps[i].parentType = ps[j].parentType)
            => ps[i].type = ps[j].type

\* C28: a @NamespaceResolver declaration that ends with the conflict error
\* of setSegmentMapping leaves no field registration of its methods in
\* `fields` and no segment mapping of its own, for either kind: fields and
\* mappings are those before the declaration.
C28_FailedDeclarationLeavesNothing ==
    \A d \in Declarations :
        LET after == NamespaceResolver(Reg, d.target, d.options, d.methods)
        IN  after.thrown = ConflictError =>
                /\ after.fields = fields
                /\ after.segmentToTypeName = segmentToTypeName
                /\ after.leafToParent = leafToParent

\* C29: a second compile right after a compile leaves the roots, the edges
\* and the type cache as the first left them and returns as many root
\* resolvers and as many link resolvers as the first.
C29_CompileIdempotentOnGraph ==
    LET first  == buildDynamicProviders(Reg)
        second == buildDynamicProviders(first.reg)
    IN  /\ second.reg.roots = first.reg.roots
        /\ second.reg.edges = first.reg.edges
        /\ second.reg.createdTypes = first.reg.createdTypes
        /\ second.reg.constructed = first.reg.constructed
        /\ Cardinality(RootResolvers(second.providers)) =
               Cardinality(RootResolvers(first.providers))
        /\ Cardinality(LinkResolvers(second.providers)) =
               Cardinality(LinkResolvers(first.providers))

\* a registration of [user, profile] was compiled, and compiled again: one
\* root, one edge, and a root and a link resolver returned
C29_Witness ==
    /\ calls = 3
    /\ Len(fields) = 1
    /\ fields[1].segments = <<user, profile>>
    /\ Len(roots) = 1
    /\ Len(edges) = 1
    /\ Len(providers) = 2
    /\ buildDynamicProviders(Reg).reg.edges = edges

\* a key of segmentToTypeName, leafToParent or roots is a key of the kind
KeyOfKind(key, graphqlKind) ==
    /\ Len(key) > Len(graphqlKind)
    /\ SubSeq(key, 1, Len(graphqlKind) + 1) = graphqlKind \o <<":">>

\* what a registry records for one kind: its roots and its edges, in their
\* order, its primary mappings and the parents of its segments
KindPart(r, graphqlKind) ==
    [roots        |-> SelectSeq(r.roots,
                          LAMBDA e : e.root.graphqlKind = graphqlKind
                                         \/ KeyOfKind(e.key, graphqlKind)),
     edges        |-> SelectSeq(r.edges, LAMBDA e : e.graphqlKind = graphqlKind),
     mappings     |-> [k \in {x \in DOMAIN r.segmentToTypeName :
                                  KeyOfKind(x, graphqlKind)}
                           |-> r.segmentToTypeName[k]],
     leafToParent |-> [k \in {x \in DOMAIN r.leafToParent :
                                  KeyOfKind(x, graphqlKind)}
                           |-> r.leafToParent[k]]]

\* the operations of one kind on a registry leave what it records for the
\* other kind as it is
OtherKindKept(r, graphqlKind, other) ==
    LET kept == KindPart(r, other)
    IN  /\ \A call \in MappingCalls :
               call.graphqlKind = graphqlKind =>
                   KindPart(ApplyCall(r, call), other) = kept
        /\ \A rootName \in RootNames \cup {settings},
              typeName \in OptionalTypeNames :
               KindPart(ensureRoot(r, graphqlKind, rootName, typeName), other) = kept
        /\ \A args \in EdgeArgs :
               KindPart(ensureEdge(r, graphqlKind, args[1], args[2]), other) = kept
        /\ \A segments \in FieldPaths :
               KindPart(BuildEdgeFromField(r, [graphqlKind |-> graphqlKind,
                                               segments    |-> segments,
                                               fieldName   |-> <<"f">>]),
                        other) = kept

\* C30: a setSegmentMapping, ensureRoot or ensureEdge call for one kind, and
\* the compilation of a registration of one kind, leave the roots, edges,
\* primary mappings and segment parents of the other kind as they are,
\* before compile and after it; a segment that no call mapped for a kind
\* can be mapped for it under any parent, whatever its parent for the
\* other kind is.
C30_KindsAreIsolated ==
    \A graphqlKind \in GraphQLKind :
        \A other \in GraphQLKind \ {graphqlKind} :
            /\ \A r \in {Reg, buildDynamicProviders(Reg).reg} :
                   OtherKindKept(r, graphqlKind, other)
            /\ \A call \in MappingCalls :
                   (/\ call.graphqlKind = graphqlKind
                    /\ \A a \in DOMAIN accepted :
                           a[1] = graphqlKind => a[2] # call.segment)
                   => ApplyCall(Reg, call).thrown = NoError

\* profile is mapped under settings for Query and at the root level for
\* Mutation, and neither call threw
C30_Witness ==
    /\ Len(log) = 2
    /\ thrown = NoError
    /\ DOMAIN accepted = {<<Mutation, profile, <<>>>>, <<Query, profile, settings>>}
    /\ getParentForLeaf(Reg, Mutation, profile) = <<>>
    /\ getParentForLeaf(Reg, Query, profile) = settings

====
